---- MODULE Spec2Model ----
(***************************************************************************)
(* Model of ImageNode::layout (library/src/visualize/image.rs): the        *)
(* geometry that resolves an image's target box, its fitted size and the   *)
(* clip decision from the intrinsic pixel size, the width/height sizing,   *)
(* the regions handed in by the layout engine and the fit mode.            *)
(*                                                                         *)
(* Lengths (Abs) and ratios (f64) are non-negative extended rationals      *)
(* [n, d] kept in lowest terms: d > 0 is the finite value n/d, [1, 0] is   *)
(* +infinity and [0, 0] is NaN.  Arithmetic follows IEEE 754 on these      *)
(* values (inf/inf = NaN, x/inf = 0, x > NaN is false) but is exact: the   *)
(* rounding of f64 is not modelled, so equalities below are the exact      *)
(* counterparts of what the floating-point code satisfies up to rounding.  *)
(***************************************************************************)
EXTENDS Integers, FiniteSets, Sequences, TLC

\* Largest pixel width/height of the image.
MaxPx == 3
\* Largest finite extent of regions.base() per axis.
MaxLen == 4
\* Largest absolute part of an explicit width/height.
MaxAbs == 1

VARIABLES pxw, pxh, width, height, base, rexpand, fit, target, fitted, clip, pc

vars == <<pxw, pxh, width, height, base, rexpand, fit, target, fitted, clip, pc>>

-----------------------------------------------------------------------------
\* Extended rational arithmetic (Abs, f64)

RECURSIVE GCD(_, _)
GCD(a, b) == IF b = 0 THEN a ELSE GCD(b, a % b)

\* The value n/d in lowest terms; d = 0 gives infinity (n > 0) or NaN (n = 0).
Q(n, d) ==
    LET g == GCD(n, d)
    IN IF g = 0 THEN [n |-> 0, d |-> 0] ELSE [n |-> n \div g, d |-> d \div g]

Zero == Q(0, 1)
Inf == Q(1, 0)
NaN == Q(0, 0)

IsNaN(a) == a.n = 0 /\ a.d = 0
is_finite(a) == a.d # 0

Mul(a, b) == Q(a.n * b.n, a.d * b.d)
Div(a, b) == Q(a.n * b.d, a.d * b.n)
Add(a, b) ==
    IF IsNaN(a) \/ IsNaN(b) THEN NaN
    ELSE IF a.d = 0 \/ b.d = 0 THEN Inf
    ELSE Q(a.n * b.d + b.n * a.d, a.d * b.d)

\* IEEE comparisons: anything compared with NaN is false.
Gt(a, b) == ~IsNaN(a) /\ ~IsNaN(b) /\ a.n * b.d > b.n * a.d
Ge(a, b) == ~IsNaN(a) /\ ~IsNaN(b) /\ a.n * b.d >= b.n * a.d
Le(a, b) == Ge(b, a)

\* Abs::min
Min(a, b) == IF Le(a, b) THEN a ELSE b

\* Abs::safe_div(f64): the quotient.  The divisor px_ratio is positive and
\* finite here, so the quotient is finite unless the dividend is unbounded.
safe_div(a, r) == Div(a, r)

Size(x, y) == [x |-> x, y |-> y]

\* Abs::fits / Size::fits: other is not larger than self, per axis.
fits(self, other) == Ge(self.x, other.x) /\ Ge(self.y, other.y)

-----------------------------------------------------------------------------
\* Sizing: Smart<Rel<Length>>

Auto == [kind |-> "auto", rel |-> Zero, abs |-> Zero]
Custom(r, a) == [kind |-> "custom", rel |-> r, abs |-> a]

is_custom(s) == s.kind = "custom"

\* Rel::relative_to: the ratio of the whole (zero if that is not finite) plus
\* the absolute part.
relative_to(v, whole) ==
    LET resolved == Mul(whole, v.rel)
    IN Add(IF is_finite(resolved) THEN resolved ELSE Zero, v.abs)

Ratios == {Q(0, 1), Q(1, 2), Q(1, 1)}
Sizings == {Auto} \cup {Custom(r, Q(a, 1)) : r \in Ratios, a \in 0..MaxAbs}
Extents == {Q(l, 1) : l \in 0..MaxLen} \cup {Inf}
ImageFit == {"Cover", "Contain", "Stretch"}

-----------------------------------------------------------------------------
\* The locals of ImageNode::layout, as functions of its inputs

sizing == Size(width, height)

\* sizing.zip(base).map(resolve).unwrap_or(base): the working region.
region ==
    Size(IF is_custom(sizing.x) THEN relative_to(sizing.x, base.x) ELSE base.x,
         IF is_custom(sizing.y) THEN relative_to(sizing.y, base.y) ELSE base.y)

expand_and ==
    Size(is_custom(sizing.x) /\ rexpand.x, is_custom(sizing.y) /\ rexpand.y)
\* sizing.map(is_custom) | regions.expand
expand ==
    Size(is_custom(sizing.x) \/ rexpand.x, is_custom(sizing.y) \/ rexpand.y)

region_ratio == Div(region.x, region.y)

px_ratio == Div(Q(pxw, 1), Q(pxh, 1))

wide_le == Gt(region_ratio, px_ratio)
wide_ge == Ge(px_ratio, region_ratio)
wide == Gt(px_ratio, region_ratio)

target_swapped ==
    IF expand.x /\ expand.y THEN region
    ELSE IF expand.x \/ (~expand.y /\ wide /\ is_finite(region.x))
        THEN Size(region.x, Min(region.y, safe_div(region.x, px_ratio)))
    ELSE IF is_finite(region.y)
        THEN Size(Min(region.x, Mul(region.y, px_ratio)), region.y)
    ELSE Size(Q(pxh, 1), Q(pxw, 1))
target_nowide ==
    IF expand.x /\ expand.y THEN region
    ELSE IF expand.x \/ (~expand.y /\ is_finite(region.x))
        THEN Size(region.x, Min(region.y, safe_div(region.x, px_ratio)))
    ELSE IF is_finite(region.y)
        THEN Size(Min(region.x, Mul(region.y, px_ratio)), region.y)
    ELSE Size(Q(pxw, 1), Q(pxh, 1))
\* The space into which the image will be placed according to its fit.
target_size ==
    IF expand.x /\ expand.y THEN region
    ELSE IF expand.x \/ (~expand.y /\ wide /\ is_finite(region.x))
        THEN Size(region.x, Min(region.y, safe_div(region.x, px_ratio)))
    ELSE IF is_finite(region.y)
        THEN Size(Min(region.x, Mul(region.y, px_ratio)), region.y)
    ELSE Size(Q(pxw, 1), Q(pxh, 1))

fitted_flipped(t) ==
    IF fit \in {"Cover", "Contain"}
    THEN IF wide = (fit = "Cover")
         THEN Size(t.x, Div(t.x, px_ratio))
         ELSE Size(Mul(t.y, px_ratio), t.y)
    ELSE t
fitted_mul(t) ==
    IF fit \in {"Cover", "Contain"}
    THEN IF wide = (fit = "Contain")
         THEN Size(t.x, Mul(t.x, px_ratio))
         ELSE Size(Mul(t.y, px_ratio), t.y)
    ELSE t
\* The actual size of the fitted image.
fitted_size(t) ==
    IF fit \in {"Cover", "Contain"}
    THEN IF wide = (fit = "Contain")
         THEN Size(t.x, Div(t.x, px_ratio))
         ELSE Size(Mul(t.y, px_ratio), t.y)
    ELSE t

needs_clip_swapped(t, f) == fit = "Cover" /\ ~fits(f, t)
\* Whether a clipping group is created.
needs_clip(t, f) == fit = "Cover" /\ ~fits(t, f)

-----------------------------------------------------------------------------
\* State machine

Init ==
    /\ pxw \in 1..MaxPx
    /\ pxh \in 1..MaxPx
    /\ width \in Sizings
    /\ height \in Sizings
    /\ base \in [x : Extents, y : Extents]
    /\ rexpand \in [x : BOOLEAN, y : BOOLEAN]
    /\ fit \in ImageFit
    /\ target = Size(Zero, Zero)
    /\ fitted = Size(Zero, Zero)
    /\ clip = FALSE
    /\ pc = "start"

layout ==
    /\ pc = "start"
    /\ target' = target_size
    /\ fitted' = fitted_size(target_size)
    /\ clip' = needs_clip(target_size, fitted_size(target_size))
    /\ pc' = "done"
    /\ UNCHANGED <<pxw, pxh, width, height, base, rexpand, fit>>

Next == layout

Spec == Init /\ [][Next]_vars

-----------------------------------------------------------------------------
\* Vocabulary of the properties, stated on the inputs and the result only

Done == pc = "done"

IntrinsicSize == Size(Q(pxw, 1), Q(pxh, 1))

\* Per axis: the resolved explicit size if the request is explicit,
\* otherwise the available extent.
WorkingRegion ==
    Size(IF width.kind = "custom" THEN relative_to(width, base.x) ELSE base.x,
         IF height.kind = "custom" THEN relative_to(height, base.y) ELSE base.y)

ExpandsX == width.kind = "custom" \/ rexpand.x
ExpandsY == height.kind = "custom" \/ rexpand.y

PxRatio == Div(Q(pxw, 1), Q(pxh, 1))
ImageWide == Gt(PxRatio, Div(WorkingRegion.x, WorkingRegion.y))

Positive(a) == is_finite(a) /\ a.n > 0

\* s has the image's aspect ratio: s.x * height_px = s.y * width_px.
HasImageAspect(s) == Mul(s.x, Q(pxh, 1)) = Mul(s.y, Q(pxw, 1))

-----------------------------------------------------------------------------
\* C1: under Cover the placed size is at least the target on both axes, for
\* every region (finite or unbounded), sizing and expand flags.
CoverCovers ==
    (Done /\ fit = "Cover") => Ge(fitted.x, target.x) /\ Ge(fitted.y, target.y)

CoverCoversWitness ==
    /\ Done /\ fit = "Cover"
    /\ Gt(fitted.y, target.y) /\ is_finite(fitted.y)
    /\ fitted.x = target.x /\ Positive(target.x) /\ Positive(target.y)

\* C2: under Contain the placed size is at most the target on both axes, for
\* every region (finite or unbounded), sizing and expand flags.
ContainFits ==
    (Done /\ fit = "Contain") => Le(fitted.x, target.x) /\ Le(fitted.y, target.y)

ContainFitsWitness ==
    /\ Done /\ fit = "Contain"
    /\ Gt(target.x, fitted.x) /\ Positive(fitted.x)
    /\ fitted.y = target.y /\ is_finite(target.x) /\ Positive(target.y)

\* C3: clip is set iff the fit is Cover and the placed size exceeds the target
\* strictly on some axis; under Cover clip is unset exactly when placed = target.
ClipDecision ==
    Done =>
        /\ clip <=> (fit = "Cover"
                     /\ (Gt(fitted.x, target.x) \/ Gt(fitted.y, target.y)))
        /\ fit = "Cover" => (~clip <=> fitted = target)

ClipDecisionWitness ==
    /\ Done /\ clip /\ fit = "Cover"
    /\ Gt(fitted.x, target.x) /\ fitted.y = target.y
    /\ Positive(target.x) /\ Positive(target.y)

\* C4: under Cover and Contain the placed size has the image's aspect ratio:
\* placed.x * height_px = placed.y * width_px, and placed.x / placed.y =
\* px_ratio wherever that quotient is defined.
AspectPreserved ==
    (Done /\ fit \in {"Cover", "Contain"}) =>
        /\ HasImageAspect(fitted)
        /\ Positive(fitted.y) => Div(fitted.x, fitted.y) = PxRatio

AspectPreservedWitness ==
    /\ Done /\ fit \in {"Cover", "Contain"}
    /\ fitted # target /\ Positive(fitted.x) /\ Positive(fitted.y)
    /\ pxw # pxh

\* C5: when both axes expand (explicit request or region expand flag), the
\* target is exactly the working region, whatever the image and the fit.
BothExpandFillsRegion ==
    (Done /\ ExpandsX /\ ExpandsY) => target = WorkingRegion

BothExpandFillsRegionWitness ==
    /\ Done /\ width = Auto /\ rexpand.x /\ height.kind = "custom" /\ ~rexpand.y
    /\ target = WorkingRegion /\ ~HasImageAspect(target)

\* C6: with both requests auto, no expand flag and a region unbounded on both
\* axes, target = placed = intrinsic pixel size and nothing is clipped, for
\* every fit.
NativeSizeWhenUnbounded ==
    (Done /\ width = Auto /\ height = Auto /\ ~rexpand.x /\ ~rexpand.y
          /\ base = Size(Inf, Inf)) =>
        target = IntrinsicSize /\ fitted = target /\ ~clip

NativeSizeWhenUnboundedWitness ==
    /\ Done /\ width = Auto /\ height = Auto /\ ~rexpand.x /\ ~rexpand.y
    /\ base = Size(Inf, Inf) /\ fit = "Cover" /\ pxw # pxh
    /\ target = IntrinsicSize

\* C7: on each axis that expands, the target equals the working region's
\* extent on that axis, also when only one axis expands or an axis is
\* unbounded.
ExpandingAxisFull ==
    Done =>
        /\ ExpandsX => target.x = WorkingRegion.x
        /\ ExpandsY => target.y = WorkingRegion.y

\* C8: with no axis expanding and a working region finite on some axis, the
\* target has the image's aspect ratio, fits in the working region, touches it
\* on the width if the image is wide and on the height otherwise, and
\* placed = target with no clip under every fit.
NoExpandTargetIsAspectFit ==
    (Done /\ ~ExpandsX /\ ~ExpandsY
          /\ (is_finite(WorkingRegion.x) \/ is_finite(WorkingRegion.y))) =>
        /\ HasImageAspect(target)
        /\ Le(target.x, WorkingRegion.x) /\ Le(target.y, WorkingRegion.y)
        /\ ImageWide => target.x = WorkingRegion.x
        /\ ~ImageWide => target.y = WorkingRegion.y
        /\ fitted = target
        /\ ~clip

NoExpandTargetIsAspectFitWitness ==
    /\ Done /\ ~ExpandsX /\ ~ExpandsY
    /\ Positive(WorkingRegion.x) /\ Positive(WorkingRegion.y)
    /\ ~ImageWide /\ Gt(WorkingRegion.x, target.x) /\ target.y = WorkingRegion.y
    /\ fit = "Cover"

\* C9: when px_ratio equals region_ratio (working region finite and positive),
\* wide is false and, for every expansion, target = working region,
\* placed = target under every fit, and nothing is clipped.
AspectTie ==
    (Done /\ Positive(WorkingRegion.x) /\ Positive(WorkingRegion.y)
          /\ PxRatio = Div(WorkingRegion.x, WorkingRegion.y)) =>
        /\ ~wide
        /\ target = WorkingRegion
        /\ fitted = target
        /\ ~clip

AspectTieWitness ==
    /\ Done /\ Positive(WorkingRegion.x) /\ Positive(WorkingRegion.y)
    /\ PxRatio = Div(WorkingRegion.x, WorkingRegion.y)
    /\ pxw # pxh /\ ExpandsY /\ ~ExpandsX /\ fit = "Contain"

\* C10: the target never exceeds the working region on either axis (an
\* unbounded axis bounds nothing), whatever the expansion, fit and region.
TargetWithinRegion ==
    Done => Le(target.x, WorkingRegion.x) /\ Le(target.y, WorkingRegion.y)

====
